---- MODULE Spec2Model ----
(***************************************************************************)
(* A model of src/nanopub_utils.py: the literal/URI formatting primitives, *)
(* the pubinfo graph builder, validate_required_fields and the             *)
(* NanopubGenerator class.                                                 *)
(*                                                                         *)
(* Text is a sequence of tokens.  A token is a one-character string        *)
(* (" ", ";", ".", ":", "<", ">", the double quote, the backslash, the     *)
(* line feed, the carriage return, a letter) or a word: a run of           *)
(* characters that holds none of the characters the code inspects, so     *)
(* that str.replace, str.rstrip, str.endswith and "\n".join act on tokens  *)
(* exactly as they act on characters.  A prefixed name p:local is the      *)
(* three tokens p, ":", local; ":" is emitted nowhere else.                *)
(*                                                                         *)
(* An optional argument is a sequence of length 0 (None) or 1.             *)
(***************************************************************************)
EXTENDS Integers, Sequences, FiniteSets, TLC

VARIABLES
    lit,                \* one call of make_literal: its arguments and result
    pub,                \* one call of generate_pubinfo_graph
    val,                \* one call of validate_required_fields by a caller
    generators,         \* the NanopubGenerator objects, by construction order
    docs,               \* the texts generate has returned, in order
    PREFIXES,           \* the module-level prefix table (a dict)
    PUBINFO_TEMPLATES,  \* the class attribute (a list)
    calls               \* how many method calls the callers have made so far

vars == <<lit, pub, val, generators, docs, PREFIXES, PUBINFO_TEMPLATES, calls>>

----------------------------------------------------------------------------
(* Bounds *)

MaxLitLen == 3

\* the longest list of required fields a caller declares
MaxRequired == 3

\* one build (Spec): how many calls of add_prefix, add_wikidata_label,
\* set_introduces, add_nanopub_type and label assignments are made
MaxCalls == 3

\* several builds (SpecTwo): how many generators are constructed, how many
\* method calls are made and how many times generate is called, over all of them
MaxGenerators == 2

PairCalls == 1

PairDocs == 2

----------------------------------------------------------------------------
(* Optional values and Python truthiness *)

None == <<>>

Some(x) == <<x>>

\* `if x:` for an optional string or list: not None and not empty
Truthy(opt) == opt # None /\ opt[1] # <<>>

Spaces(n) == [i \in 1..n |-> " "]

\* f"{prefix}:{local}"
PName(p, local) == <<p, ":", local>>

\* f"<{uri}>"
Angle(uri) == <<"<">> \o uri \o <<">">>

RECURSIVE Join(_, _)
\* sep.join(parts)
Join(parts, sep) ==
    IF parts = <<>> THEN <<>>
    ELSE IF Len(parts) = 1 THEN parts[1]
    ELSE parts[1] \o sep \o Join(Tail(parts), sep)

RECURSIVE SplitOn(_, _)
\* seq.split(sep): the runs of seq between occurrences of sep
SplitOn(seq, sep) ==
    IF \A i \in 1..Len(seq) : seq[i] # sep THEN <<seq>>
    ELSE LET k == CHOOSE i \in 1..Len(seq) :
                      seq[i] = sep /\ \A j \in 1..(i - 1) : seq[j] # sep
         IN  <<SubSeq(seq, 1, k - 1)>> \o SplitOn(SubSeq(seq, k + 1, Len(seq)), sep)

\* text.split("\n"): the physical lines of a text
SplitLines(text) == SplitOn(text, "\n")

\* the physical lines of a text that ends in a line break, without the empty
\* string that follows the last break
TextLines(text) == SplitLines(SubSeq(text, 1, Len(text) - 1))

----------------------------------------------------------------------------
(* escape_literal, make_uri, make_literal *)

RECURSIVE Replace(_, _, _)
\* text.replace(c, rep) for a one-character pattern c
Replace(text, c, rep) ==
    IF text = <<>> THEN <<>>
    ELSE (IF text[1] = c THEN rep ELSE <<text[1]>>) \o Replace(Tail(text), c, rep)

\* the replacements of line 61 with the backslash replaced last
escape_literal_BackslashLast(text) ==
    Replace(Replace(Replace(Replace(text, "\"", <<"\\", "\"">>),
                            "\n", <<"\\", "n">>),
                    "\r", <<"\\", "r">>),
            "\\", <<"\\", "\\">>)

escape_literal(text) ==
    Replace(Replace(Replace(Replace(text, "\\", <<"\\", "\\">>),
                            "\"", <<"\\", "\"">>),
                    "\n", <<"\\", "n">>),
            "\r", <<"\\", "r">>)

make_uri(value, prefix) ==
    IF value # <<>> /\ value[1] \in {"http://", "https://"} THEN Angle(value)
    ELSE IF Truthy(prefix) THEN prefix[1] \o <<":">> \o value
    ELSE Angle(value)

make_literal(value, datatype, lang) ==
    LET escaped == escape_literal(value)
    IN  IF Truthy(datatype) THEN <<"\"">> \o escaped \o <<"\"", "^^">> \o datatype[1]
        ELSE IF Truthy(lang) THEN <<"\"">> \o escaped \o <<"\"", "@">> \o lang[1]
        ELSE <<"\"">> \o escaped \o <<"\"">>

----------------------------------------------------------------------------
(* generate_pubinfo_graph *)

RECURSIVE Rstrip(_, _)
\* text.rstrip(chars)
Rstrip(text, chars) ==
    IF text # <<>> /\ text[Len(text)] \in chars
    THEN Rstrip(SubSeq(text, 1, Len(text) - 1), chars)
    ELSE text

\* text.endswith(" .")
EndsWithSpaceDot(text) ==
    Len(text) >= 2 /\ text[Len(text) - 1] = " " /\ text[Len(text)] = "."

\* lines with lines[-1] replaced
SetLast(lines, text) == [lines EXCEPT ![Len(lines)] = text]

\* d.get(k) is truthy, for a dict d of strings
GetTruthy(d, k) == k \in DOMAIN d /\ d[k] # <<>>

\* ", ".join([f"<{t}>" for t in uris]), and the ",\n      " of line 158
AngleList(uris, sep) == Join([i \in 1..Len(uris) |-> Angle(uris[i])], sep)

\* lines 161-169 with the custom template appended after the period was written
FinishBlock_PeriodBeforeTemplate(lines, template_uri) ==
    LET closed == SetLast(lines, Rstrip(lines[Len(lines)], {" ", ";"}) \o <<" ", ".">>)
    IN  IF Truthy(template_uri)
        THEN Append(closed, Spaces(4) \o PName("nt", "wasCreatedFromTemplate") \o <<" ">>
                            \o Angle(template_uri[1]) \o <<" ", ".">>)
        ELSE closed

\* lines 161-169: the terminator of the 'this:' statement
FinishBlock(lines, template_uri) ==
    IF Truthy(template_uri)
    THEN LET stripped == SetLast(lines, Rstrip(lines[Len(lines)], {" ", ";"}))
             again == IF ~EndsWithSpaceDot(stripped[Len(stripped)])
                      THEN SetLast(stripped, stripped[Len(stripped)] \o <<" ", ";">>)
                      ELSE stripped
         IN  Append(again, Spaces(4) \o PName("nt", "wasCreatedFromTemplate") \o <<" ">>
                           \o Angle(template_uri[1]) \o <<" ", ".">>)
    ELSE SetLast(lines, Rstrip(lines[Len(lines)], {" ", ";"}) \o <<" ", ".">>)

\* lines 113-126: the label lookups and the creator statement
PubinfoHeaderLines(a) ==
    LET l0 == << PName(a.sub_prefix, "pubinfo") \o <<" ", "{">> >>
        wd == IF a.wikidata_labels # None /\ a.wikidata_labels[1] # <<>>
              THEN a.wikidata_labels[1] ELSE <<>>
        l1 == IF wd # <<>>
              THEN l0 \o [i \in 1..Len(wd) |->
                            Spaces(2) \o Angle(wd[i][1]) \o <<" ">>
                            \o PName("nt", "hasLabelFromApi") \o <<" ">>
                            \o make_literal(wd[i][2], None, None) \o <<" ", ".">>]
                      \o << <<>> >>
              ELSE l0
        l2 == IF a.is_part_of # None /\ GetTruthy(a.is_part_of[1], "label")
              THEN l1 \o << Spaces(2) \o Angle(a.is_part_of[1]["uri"]) \o <<" ">>
                            \o PName("nt", "hasLabelFromApi") \o <<" ">>
                            \o make_literal(a.is_part_of[1]["label"], None, None)
                            \o <<" ", ".">>,
                            <<>> >>
              ELSE l1
    IN  l2 \o << Spaces(2) \o PName("orcid", a.creator_orcid) \o <<" ">>
                 \o PName("foaf", "name") \o <<" ">>
                 \o make_literal(a.creator_name, None, None) \o <<" ", ".">>,
                 <<>> >>

\* lines 128-159: the predicates of 'this:', each ending " ;"
PubinfoMetadataLines(a) ==
    LET m0 == << Spaces(2) \o <<"this", ":", " ">> \o PName("dct", "created")
                 \o <<" ", "\"", a.timestamp, "\"", "^^">> \o PName("xsd", "dateTime")
                 \o <<" ", ";">>,
                 Spaces(4) \o PName("dct", "creator") \o <<" ">>
                 \o PName("orcid", a.creator_orcid) \o <<" ", ";">>,
                 Spaces(4) \o PName("dct", "license") \o <<" ">>
                 \o Angle(<<"https://", "creativecommons.org/licenses/by/4.0/">>)
                 \o <<" ", ";">> >>
        m1 == IF Truthy(a.nanopub_types)
              THEN Append(m0, Spaces(4) \o PName("npx", "hasNanopubType") \o <<" ">>
                              \o AngleList(a.nanopub_types[1], <<",", " ">>) \o <<" ", ";">>)
              ELSE m0
        m2 == IF Truthy(a.introduces_uri)
              THEN Append(m1, Spaces(4) \o PName("npx", "introduces") \o <<" ">>
                              \o Angle(a.introduces_uri[1]) \o <<" ", ";">>)
              ELSE m1
        m3 == IF Truthy(a.supersedes)
              THEN Append(m2, Spaces(4) \o PName("npx", "supersedes") \o <<" ">>
                              \o Angle(a.supersedes[1]) \o <<" ", ";">>)
              ELSE m2
        m4 == IF a.is_part_of # None /\ GetTruthy(a.is_part_of[1], "uri")
              THEN Append(m3, Spaces(4) \o Angle(<<"http://", "purl.org/dc/terms/isPartOf">>)
                              \o <<" ">> \o Angle(a.is_part_of[1]["uri"]) \o <<" ", ";">>)
              ELSE m3
        m5 == m4 \o << Spaces(4) \o PName("npx", "wasCreatedAt") \o <<" ">>
                       \o Angle(<<"https://", "nanodash.knowledgepixels.com/">>)
                       \o <<" ", ";">>,
                       Spaces(4) \o PName("rdfs", "label") \o <<" ">>
                       \o make_literal(a.label, None, None) \o <<" ", ";">> >>
        m6 == IF Truthy(a.provenance_template_uri)
              THEN Append(m5, Spaces(4) \o PName("nt", "wasCreatedFromProvenanceTemplate")
                              \o <<" ">> \o Angle(a.provenance_template_uri[1])
                              \o <<" ", ";">>)
              ELSE m5
    IN  IF Truthy(a.pubinfo_template_uris)
        THEN Append(m6, Spaces(4) \o PName("nt", "wasCreatedFromPubinfoTemplate") \o <<" ">>
                        \o AngleList(a.pubinfo_template_uris[1], <<",", "\n">> \o Spaces(6))
                        \o <<" ", ";">>)
        ELSE m6

\* lines 93-173; a.timestamp is what get_timestamp() returned (line 109)
generate_pubinfo_graph(a) ==
    Join(Append(FinishBlock(PubinfoHeaderLines(a) \o PubinfoMetadataLines(a),
                            a.template_uri),
                <<"}">>),
         <<"\n">>)

----------------------------------------------------------------------------
(* validate_required_fields *)

\* a JSON value of a configuration: a string or null
StrValue(s) == [kind |-> "str", s |-> s]

NullValue == [kind |-> "null", s |-> <<>>]

\* Python's truth value of a configuration value
PyTruthy(v) == v.kind = "str" /\ v.s # <<>>

RECURSIVE SelectMissing(_, _)
\* [f for f in required if f not in config or not config[f]]
SelectMissing(config, required) ==
    IF required = <<>> THEN <<>>
    ELSE (IF required[1] \notin DOMAIN config \/ ~PyTruthy(config[required[1]])
          THEN <<required[1]>> ELSE <<>>)
         \o SelectMissing(config, Tail(required))

\* line 203 stopping at the first missing field
MissingFields_FirstOnly(config, required) ==
    LET all == SelectMissing(config, required)
    IN  IF all = <<>> THEN <<>> ELSE <<all[1]>>

\* line 203
MissingFields(config, required) == SelectMissing(config, required)

\* line 205: the message of the ValueError
MissingMessage(missing) ==
    <<"Missing required fields: ">>
    \o Join([i \in 1..Len(missing) |-> <<missing[i]>>], <<",", " ">>)

----------------------------------------------------------------------------
(* Module-level and class-level data *)

\* PREFIXES, lines 14-39
PrefixTable ==
    ("np" :> <<"http://", "www.nanopub.org/nschema#">>)
    @@ ("dct" :> <<"http://", "purl.org/dc/terms/">>)
    @@ ("rdf" :> <<"http://", "www.w3.org/1999/02/22-rdf-syntax-ns#">>)
    @@ ("rdfs" :> <<"http://", "www.w3.org/2000/01/rdf-schema#">>)
    @@ ("xsd" :> <<"http://", "www.w3.org/2001/XMLSchema#">>)
    @@ ("prov" :> <<"http://", "www.w3.org/ns/prov#">>)
    @@ ("foaf" :> <<"http://", "xmlns.com/foaf/0.1/">>)
    @@ ("orcid" :> <<"https://", "orcid.org/">>)
    @@ ("npx" :> <<"http://", "purl.org/nanopub/x/">>)
    @@ ("nt" :> <<"https://", "w3id.org/np/o/ntemplate/">>)
    @@ ("cito" :> <<"http://", "purl.org/spar/cito/">>)
    @@ ("fabio" :> <<"http://", "purl.org/spar/fabio/">>)
    @@ ("schema" :> <<"https://", "schema.org/">>)
    @@ ("skos" :> <<"http://", "www.w3.org/2004/02/skos/core#">>)
    @@ ("hycl" :> <<"http://", "purl.org/petapico/o/hycl#">>)
    @@ ("aida" :> <<"http://", "purl.org/aida/">>)
    @@ ("wd" :> <<"http://", "www.wikidata.org/entity/">>)
    @@ ("wdt" :> <<"http://", "www.wikidata.org/prop/direct/">>)
    @@ ("dcmitype" :> <<"http://", "purl.org/dc/dcmitype/">>)
    @@ ("fdof" :> <<"https://", "w3id.org/fdof/ontology#">>)
    @@ ("fair" :> <<"https://", "w3id.org/fair/fip/terms/">>)
    @@ ("dcat" :> <<"https://", "www.w3.org/ns/dcat#">>)
    @@ ("geo" :> <<"http://", "www.opengis.net/ont/geosparql#">>)
    @@ ("pico" :> <<"http://", "data.cochrane.org/ontologies/pico/">>)

\* NanopubGenerator.PROVENANCE_TEMPLATE, line 212
PROVENANCE_TEMPLATE ==
    <<"https://", "w3id.org/np/RA7lSq6MuK_TIC6JMSHvLtee3lpLoZDOqLJCLXevnrPoU">>

\* the value of NanopubGenerator.PUBINFO_TEMPLATES at class creation, lines 213-216
PubinfoTemplateList ==
    << <<"https://", "w3id.org/np/RA0J4vUn_dekg-U1kK3AOEt02p9mT2WO03uGxLDec1jLw">>,
       <<"https://", "w3id.org/np/RAukAcWHRDlkqxk7H2XNSegc1WnHI569INvNr-xdptDGI">> >>

\* what get_timestamp() can return (lines 54-56): a word such as
\* 2026-01-01T00:00:00.000Z, which ends in Z
Timestamps == {"2026-01-01T00:00:00.000Z"}

LitIdle == [pc |-> "unused"]

PubIdle == [pc |-> "unused"]

ValIdle == [pc |-> "unused"]

\* the generator world before any generator is constructed
MainInit ==
    /\ generators = <<>>
    /\ docs = <<>>
    /\ PREFIXES = PrefixTable
    /\ PUBINFO_TEMPLATES = PubinfoTemplateList
    /\ calls = 0

mainVars == <<generators, docs, PREFIXES, PUBINFO_TEMPLATES, calls>>

----------------------------------------------------------------------------
(* generate_nanopub_uri, generate_head_graph, generate_provenance_graph *)

\* hashlib.sha256(str(u).encode()).hexdigest()[:43] for the u-th value uuid.uuid4()
\* returns; uuid4 values are taken to be distinct and the digests of distinct
\* values to differ
Sha256Hex43(u) ==
    CASE u = 1 -> "1b95bc50c157d62c759f67e139e85c4484fd00ea9e4"
      [] u = 2 -> "64997a1c0d804413196a4fa5c704476c76692c33f2b"
      [] u = 3 -> "ecde2b6f797331ce1a2add07e546ffdb229471f7218"
      [] u = 4 -> "3ebde4b5e6d8a3d3041f11394caef4c3e6db345037f"
      [] OTHER -> "59cf524725ff35c98fd429830ab2975aaa290744384"

\* lines 48-51 with the digest of one fixed value
generate_nanopub_uri_Fixed(u) == <<"https://", "w3id.org/np/RA", Sha256Hex43(1)>>

\* lines 48-51; u is the value uuid.uuid4() returned
generate_nanopub_uri(u) == <<"https://", "w3id.org/np/RA", Sha256Hex43(u)>>

\* lines 176-180
generate_provenance_graph(sub_prefix, creator_orcid) ==
    Join(<< PName(sub_prefix, "provenance") \o <<" ", "{">>,
            Spaces(2) \o PName(sub_prefix, "assertion") \o <<" ">>
            \o PName("prov", "wasAttributedTo") \o <<" ">>
            \o PName("orcid", creator_orcid) \o <<" ", ".">>,
            <<"}">> >>,
         <<"\n">>)

\* lines 183-190
generate_head_graph(sub_prefix) ==
    Join(<< PName(sub_prefix, "Head") \o <<" ", "{">>,
            Spaces(2) \o <<"this", ":", " ", "a", " ">> \o PName("np", "Nanopublication")
            \o <<" ", ";">>,
            Spaces(4) \o PName("np", "hasAssertion") \o <<" ">>
            \o PName(sub_prefix, "assertion") \o <<" ", ";">>,
            Spaces(4) \o PName("np", "hasProvenance") \o <<" ">>
            \o PName(sub_prefix, "provenance") \o <<" ", ";">>,
            Spaces(4) \o PName("np", "hasPublicationInfo") \o <<" ">>
            \o PName(sub_prefix, "pubinfo") \o <<" ", ".">>,
            <<"}">> >>,
         <<"\n">>)

----------------------------------------------------------------------------
(* class NanopubGenerator *)

\* config.get(key, default)
Get(config, key, default) == IF key \in DOMAIN config THEN config[key] ELSE default

\* config.get(key): None when the key is absent
GetOpt(config, key) == IF key \in DOMAIN config THEN Some(config[key]) ELSE None

\* line 222
BaselinePrefixes == {"np", "dct", "rdf", "rdfs", "xsd", "prov", "foaf", "orcid", "npx", "nt"}

\* __init__, lines 218-228, with the control state of generate: pc is "idle" or
\* "assertion" (inside generate_assertion), locals the values generate read at
\* lines 266-270 (None outside generate).  entry_config, type_calls, intro_calls and assertion_calls
\* record what was called; the code does not read them.
NewGenerator(config, uuid) ==
    [config |-> config,
     nanopub_uri |-> generate_nanopub_uri(uuid),
     sub_prefix |-> "sub",
     used_prefixes |-> BaselinePrefixes,
     wikidata_labels |-> <<>>,
     introduces_uri |-> None,
     nanopub_types |-> <<>>,
     pc |-> "idle",
     locals |-> None,
     entry_config |-> config,
     type_calls |-> <<>>,
     intro_calls |-> <<>>,
     assertion_calls |-> 0]

\* lines 230-232
add_prefix(self, prefix) ==
    [self EXCEPT !.used_prefixes = self.used_prefixes \cup {prefix}]

\* dict[key] = value on an insertion-ordered dict
DictSet(d, key, value) ==
    IF \E i \in 1..Len(d) : d[i][1] = key
    THEN [i \in 1..Len(d) |-> IF d[i][1] = key THEN <<key, value>> ELSE d[i]]
    ELSE Append(d, <<key, value>>)

\* lines 234-237
add_wikidata_label(self, uri, label) ==
    IF Len(uri) >= 2 /\ SubSeq(uri, 1, 2) = <<"http://", "www.wikidata.org/entity/">>
    THEN [self EXCEPT !.wikidata_labels = DictSet(self.wikidata_labels, uri, label)]
    ELSE self

\* set_introduces keeping the URI that was set first
set_introduces_KeepFirst(self, uri) ==
    [self EXCEPT !.introduces_uri = IF self.introduces_uri = None THEN Some(uri)
                                    ELSE self.introduces_uri,
                 !.intro_calls = Append(self.intro_calls, uri)]

\* lines 239-241
set_introduces(self, uri) ==
    [self EXCEPT !.introduces_uri = Some(uri),
                 !.intro_calls = Append(self.intro_calls, uri)]

\* add_nanopub_type without the membership test of line 245
add_nanopub_type_NoTest(self, type_uri) ==
    [self EXCEPT !.nanopub_types = Append(self.nanopub_types, type_uri),
                 !.type_calls = Append(self.type_calls, type_uri)]

\* lines 243-246
add_nanopub_type(self, type_uri) ==
    [self EXCEPT !.nanopub_types =
                     IF \E i \in 1..Len(self.nanopub_types) : self.nanopub_types[i] = type_uri
                     THEN self.nanopub_types
                     ELSE Append(self.nanopub_types, type_uri),
                 !.type_calls = Append(self.type_calls, type_uri)]

\* the names add_prefix is called with, in the order sorted() gives strings
PrefixOrder ==
    <<"aida", "cito", "dcat", "dcmitype", "dct", "ex", "fabio", "fair", "fdof", "foaf",
      "geo", "hycl", "np", "npx", "nt", "orcid", "pico", "prov", "rdf", "rdfs", "schema",
      "skos", "wd", "wdt", "xsd">>

\* lines 248-257; table is the PREFIXES dict
get_prefixes_block(self, table) ==
    LET emitted == SelectSeq(PrefixOrder,
                             LAMBDA p : p \in self.used_prefixes /\ p \in DOMAIN table)
    IN  Join(<< <<"@prefix", " ", "this", ":", " ">> \o Angle(self.nanopub_uri)
                \o <<" ", ".">>,
                <<"@prefix", " ", self.sub_prefix, ":", " ">>
                \o Angle(self.nanopub_uri \o <<"/">>) \o <<" ", ".">> >>
             \o [i \in 1..Len(emitted) |->
                    <<"@prefix", " ", emitted[i], ":", " ">> \o Angle(table[emitted[i]])
                    \o <<" ", ".">>],
             <<"\n">>)

\* lines 266-270: what generate reads before it calls generate_assertion
ReadLocals(config) ==
    [creator_orcid |-> Get(config, "creator_orcid", "0000-0000-0000-0000"),
     creator_name |-> Get(config, "creator_name", <<"Unknown">>),
     template_uri |-> GetOpt(config, "template_uri"),
     supersedes |-> GetOpt(config, "supersedes"),
     is_part_of |-> GetOpt(config, "is_part_of")]

\* the label read from the configuration as generate found it on entry
ReadLabel_AtEntry(self) == Get(self.entry_config, "label", <<"Nanopublication">>)

\* line 276: the label, read when generate_assertion has returned
ReadLabel(self) == Get(self.config, "label", <<"Nanopublication">>)

\* lines 282-296: the arguments generate passes to generate_pubinfo_graph
PubinfoArgs(self, templates, timestamp) ==
    [sub_prefix |-> self.sub_prefix,
     creator_orcid |-> self.locals[1].creator_orcid,
     creator_name |-> self.locals[1].creator_name,
     label |-> ReadLabel(self),
     template_uri |-> self.locals[1].template_uri,
     provenance_template_uri |-> Some(PROVENANCE_TEMPLATE),
     pubinfo_template_uris |-> Some(templates),
     nanopub_types |-> IF self.nanopub_types # <<>> THEN Some(self.nanopub_types) ELSE None,
     introduces_uri |-> self.introduces_uri,
     wikidata_labels |-> IF self.wikidata_labels # <<>> THEN Some(self.wikidata_labels)
                         ELSE None,
     supersedes |-> self.locals[1].supersedes,
     is_part_of |-> self.locals[1].is_part_of,
     timestamp |-> timestamp]

\* line 298 with the Head and assertion graphs separated by a line break only
Concatenate_NoBlankLine(prefixes, head, assertion, provenance, pubinfo) ==
    prefixes \o <<"\n", "\n">> \o head \o <<"\n">> \o assertion \o <<"\n", "\n">>
    \o provenance \o <<"\n", "\n">> \o pubinfo \o <<"\n">>

\* line 298
Concatenate(prefixes, head, assertion, provenance, pubinfo) ==
    prefixes \o <<"\n", "\n">> \o head \o <<"\n", "\n">> \o assertion \o <<"\n", "\n">>
    \o provenance \o <<"\n", "\n">> \o pubinfo \o <<"\n">>

\* lines 276-298: the text generate returns, given the graph generate_assertion
\* returned
GenerateText(self, assertion, table, templates, timestamp) ==
    Concatenate(get_prefixes_block(self, table),
                generate_head_graph(self.sub_prefix),
                assertion,
                generate_provenance_graph(self.sub_prefix, self.locals[1].creator_orcid),
                generate_pubinfo_graph(PubinfoArgs(self, templates, timestamp)))

----------------------------------------------------------------------------
(* Specification SpecLit: make_literal applied to every short string *)

LitChars == {"\\", "\"", "\n", "\r", "a", "n"}

LitStrings == UNION {[1..k -> LitChars] : k \in 0..MaxLitLen}

LitDatatypes == {None, Some(<<>>), Some(<<"xsd", ":", "string">>)}

LitLangs == {None, Some(<<>>), Some(<<"en">>)}

InitLit ==
    /\ lit \in [pc : {"args"}, value : LitStrings, datatype : LitDatatypes,
                lang : LitLangs, out : {<<>>}]
    /\ pub = PubIdle
    /\ val = ValIdle
    /\ MainInit

MakeLiteralCall ==
    /\ lit.pc = "args"
    /\ lit' = [lit EXCEPT !.pc = "done",
                          !.out = make_literal(lit.value, lit.datatype, lit.lang)]
    /\ UNCHANGED <<pub, val, mainVars>>

NextLit == MakeLiteralCall

SpecLit == InitLit /\ [][NextLit]_vars

RECURSIVE ClosingQuote(_, _)
\* the index of the first double quote of text at or after i that no backslash
\* escapes, reading escapes left to right; 0 if there is none
ClosingQuote(text, i) ==
    IF i > Len(text) THEN 0
    ELSE IF text[i] = "\\" THEN ClosingQuote(text, i + 2)
    ELSE IF text[i] = "\"" THEN i
    ELSE ClosingQuote(text, i + 1)

RECURSIVE WellEscaped(_)
\* no raw line feed or carriage return, no bare double quote, and every backslash
\* starts one of the escapes \\ \" \n \r
WellEscaped(text) ==
    IF text = <<>> THEN TRUE
    ELSE IF text[1] = "\\"
         THEN Len(text) >= 2 /\ text[2] \in {"\\", "\"", "n", "r"}
              /\ WellEscaped(Tail(Tail(text)))
    ELSE text[1] \notin {"\"", "\n", "\r"} /\ WellEscaped(Tail(text))

RECURSIVE Unescape(_)
\* what a TriG reader makes of a well-escaped text
Unescape(text) ==
    IF text = <<>> THEN <<>>
    ELSE IF text[1] = "\\" /\ Len(text) >= 2
         THEN << CASE text[2] = "n" -> "\n"
                   [] text[2] = "r" -> "\r"
                   [] OTHER -> text[2] >> \o Unescape(Tail(Tail(text)))
    ELSE <<text[1]>> \o Unescape(Tail(text))

\* C10: the text make_literal puts between its two wrapping double quotes holds
\* no raw newline or carriage return, no double quote that a backslash does not
\* escape and no backslash outside the escapes \\ \" \n \r (so the first
\* unescaped quote after the opening one is the closing one, and what lies
\* between reads back as the input); what follows the closing quote is
\* ^^datatype when a datatype is given, whether or not a lang is, @lang when
\* only a lang is given, and nothing otherwise.
C10_LiteralWellEscaped ==
    lit.pc = "done" =>
        LET q == ClosingQuote(lit.out, 2)
            body == SubSeq(lit.out, 2, q - 1)
            suffix == SubSeq(lit.out, q + 1, Len(lit.out))
        IN  /\ lit.out[1] = "\""
            /\ q >= 2
            /\ WellEscaped(body)
            /\ Unescape(body) = lit.value
            /\ suffix = IF Truthy(lit.datatype) THEN <<"^^">> \o lit.datatype[1]
                        ELSE IF Truthy(lit.lang) THEN <<"@">> \o lit.lang[1]
                        ELSE <<>>

\* a value with a backslash, a quote and a newline, formatted with both a
\* datatype and a lang
C10_Witness ==
    /\ lit.pc = "done"
    /\ {"\\", "\"", "\n"} \subseteq {lit.value[i] : i \in 1..Len(lit.value)}
    /\ Truthy(lit.datatype)
    /\ Truthy(lit.lang)

----------------------------------------------------------------------------
(* Specification SpecPub: generate_pubinfo_graph on every combination of its *)
(* optional arguments                                                        *)

UriA == <<"http://", "example.org/a">>

\* strings a caller can pass as a URI that end in the characters the builder
\* strips and tests
UriSemi == <<"http://", "example.org/b", ";">>

UriDot == <<"http://", "example.org/c", " ", ".">>

WdUri == <<"http://", "www.wikidata.org/entity/", "Q42">>

PubLabels == {<<"L">>, <<"L", " ", ".">>, <<"L", " ", ";">>, <<"L", "\n">>}

PubArgs ==
    [sub_prefix : {"sub"},
     creator_orcid : {"0000-0001-2345-6789"},
     creator_name : {<<"A", ".", " ", "R">>},
     label : PubLabels,
     template_uri : {None, Some(<<>>), Some(UriA), Some(UriDot)},
     provenance_template_uri : {None, Some(PROVENANCE_TEMPLATE)},
     pubinfo_template_uris : {None, Some(<<>>), Some(<<UriDot>>), Some(PubinfoTemplateList)},
     nanopub_types : {None, Some(<<>>), Some(<<UriA>>), Some(<<UriA, UriSemi>>)},
     introduces_uri : {None, Some(UriSemi)},
     wikidata_labels : {None, Some(<< <<WdUri, <<"Q", " ", ".">> >> >>)},
     supersedes : {None, Some(UriDot)},
     is_part_of : {None, Some([uri |-> UriA]), Some([uri |-> UriSemi, label |-> <<"R">>])},
     timestamp : Timestamps]

InitPub ==
    /\ pub \in [pc : {"args"}, a : PubArgs, out : {<<>>}]
    /\ lit = LitIdle
    /\ val = ValIdle
    /\ MainInit

PubinfoCall ==
    /\ pub.pc = "args"
    /\ pub' = [pub EXCEPT !.pc = "done", !.out = generate_pubinfo_graph(pub.a)]
    /\ UNCHANGED <<lit, val, mainVars>>

NextPub == PubinfoCall

SpecPub == InitPub /\ [][NextPub]_vars

StartsWith(text, prefix) ==
    Len(text) >= Len(prefix) /\ SubSeq(text, 1, Len(prefix)) = prefix

EndsWith(text, suffix) ==
    Len(text) >= Len(suffix)
    /\ SubSeq(text, Len(text) - Len(suffix) + 1, Len(text)) = suffix

LastToken(text) == IF text = <<>> THEN "" ELSE text[Len(text)]

\* the physical lines of the statement about 'this:' in a pubinfo graph: from
\* the line that opens with "  this:" to the line before the closing brace
ThisBlock(graph) ==
    LET ls == SplitLines(graph)
        first == CHOOSE i \in 1..Len(ls) :
                     /\ StartsWith(ls[i], Spaces(2) \o <<"this", ":">>)
                     /\ \A j \in 1..(i - 1) : ~StartsWith(ls[j], Spaces(2) \o <<"this", ":">>)
    IN  SubSeq(ls, first, Len(ls) - 1)

\* C1: in the graph generate_pubinfo_graph returns, the statement about 'this:'
\* has exactly one terminator.  With a template_uri its last line is the
\* nt:wasCreatedFromTemplate triple ending in a period and the line before it
\* ends with ';'; without one, the last predicate line (the last line of the
\* pubinfo-template list, else the provenance-template line, else the label
\* line) ends in a period.  No earlier line of the block ends with a period:
\* each ends with ';' or, inside a URI list, with ','.
C1_OneTerminator ==
    pub.pc = "done" =>
        LET b == ThisBlock(pub.out)
            n == Len(b)
            a == pub.a
        IN  /\ n >= 5
            /\ LastToken(b[n]) = "."
            /\ \A i \in 1..(n - 1) : LastToken(b[i]) \in {";", ","}
            /\ IF Truthy(a.template_uri)
               THEN /\ b[n] = Spaces(4) \o PName("nt", "wasCreatedFromTemplate") \o <<" ">>
                              \o Angle(a.template_uri[1]) \o <<" ", ".">>
                    /\ EndsWith(b[n - 1], <<" ", ";">>)
                    /\ ~EndsWith(b[n - 1], <<";", " ", ";">>)
               ELSE IF Truthy(a.pubinfo_template_uris)
               THEN LET ts == a.pubinfo_template_uris[1]
                    IN  EndsWith(b[n], Angle(ts[Len(ts)]) \o <<" ", ".">>)
               ELSE IF Truthy(a.provenance_template_uri)
               THEN b[n] = Spaces(4) \o PName("nt", "wasCreatedFromProvenanceTemplate")
                           \o <<" ">> \o Angle(a.provenance_template_uri[1]) \o <<" ", ".">>
               ELSE /\ StartsWith(b[n], Spaces(4) \o PName("rdfs", "label"))
                    /\ EndsWith(b[n], <<"\"", " ", ".">>)

\* a call with a custom template after a two-line pubinfo-template list, and a
\* label that itself ends in " ."
C1_Witness ==
    /\ pub.pc = "done"
    /\ Truthy(pub.a.template_uri)
    /\ pub.a.pubinfo_template_uris = Some(PubinfoTemplateList)
    /\ pub.a.label = <<"L", " ", ".">>
    /\ Len(ThisBlock(pub.out)) = 11

----------------------------------------------------------------------------
(* Specification SpecVal: a caller validates a configuration against the     *)
(* fields it declares required, and assembles only if that passes            *)

Fields == {"creator_orcid", "creator_name", "label"}

FieldValues == {StrValue(<<>>), NullValue, StrValue(<<"v">>)}

\* every configuration over Fields: each field absent, empty, null or set
Configs == UNION {[D -> FieldValues] : D \in SUBSET Fields}

RequiredLists == UNION {[1..k -> Fields] : k \in 0..MaxRequired}

InitVal ==
    /\ val \in [pc : {"args"}, config : Configs, required : RequiredLists,
                error : {None}, output : {FALSE}]
    /\ lit = LitIdle
    /\ pub = PubIdle
    /\ MainInit

\* validate_required_fields(config, required), lines 201-205
ValidateRequiredFields ==
    /\ val.pc = "args"
    /\ LET missing == MissingFields(val.config, val.required)
       IN  val' = IF missing # <<>>
                  THEN [val EXCEPT !.pc = "raised",
                                   !.error = Some([type |-> "ValueError",
                                                   message |-> MissingMessage(missing)])]
                  ELSE [val EXCEPT !.pc = "validated"]
    /\ UNCHANGED <<lit, pub, mainVars>>

\* the caller goes on to build and write the document once validation returned
CallerAssembles ==
    /\ val.pc = "validated"
    /\ val' = [val EXCEPT !.pc = "assembled", !.output = TRUE]
    /\ UNCHANGED <<lit, pub, mainVars>>

NextVal == ValidateRequiredFields \/ CallerAssembles

SpecVal == InitVal /\ [][NextVal]_vars

\* the required fields a configuration lacks: absent, or empty (null or "")
Lacking(config, required) ==
    {f \in {required[i] : i \in 1..Len(required)} :
        f \notin DOMAIN config \/ config[f] \in {NullValue, StrValue(<<>>)}}

\* the field names a message lists, in order
NamesIn(message) == SelectSeq(message, LAMBDA t : t \in Fields)

----------------------------------------------------------------------------
(* Specifications Spec (one build) and SpecTwo (several builds): callers     *)
(* construct generators, call their methods and generate; a subclass's       *)
(* generate_assertion calls the methods, may assign config["label"], and     *)
(* returns a one-triple assertion graph or raises                            *)

UriB == <<"http://", "example.org/b">>

TrivialConfig ==
    [creator_orcid |-> "0000-0001-2345-6789", creator_name |-> <<"A. Researcher">>,
     label |-> <<"Test">>]

MainConfigs ==
    { TrivialConfig,
      [creator_name |-> <<"B">>, template_uri |-> UriA, supersedes |-> UriB],
      [creator_orcid |-> "0000-0002-0000-0001",
       is_part_of |-> [uri |-> UriB, label |-> <<"Review">>]] }

\* what one build, of one generator that generates its document, is driven with:
\* prefix names in and not in the table, a Wikidata and a non-Wikidata URI,
\* URIs and the empty string
SingleBuild ==
    [gens |-> 1, calls |-> MaxCalls, docs |-> 1,
     configs |-> MainConfigs,
     prefixes |-> {"cito", "ex"},
     wikidata |-> {WdUri, UriA},
     introduces |-> {UriA, UriB, <<>>},
     types |-> {UriA, UriB}]

\* what each of several builds is driven with
SeveralBuilds ==
    [gens |-> MaxGenerators, calls |-> PairCalls, docs |-> PairDocs,
     configs |-> {TrivialConfig},
     prefixes |-> {"cito"},
     wikidata |-> {WdUri},
     introduces |-> {UriA},
     types |-> {UriA}]

\* an assignment to an attribute of one generator object, with the attributes
\* kept on the class, where every object sees them
StoreSelf_ClassLevel(gs, g, self) ==
    [h \in DOMAIN gs |->
        IF h = g THEN self
        ELSE [gs[h] EXCEPT !.used_prefixes = self.used_prefixes,
                           !.wikidata_labels = self.wikidata_labels,
                           !.introduces_uri = self.introduces_uri,
                           !.nanopub_types = self.nanopub_types]]

\* the attributes set in __init__ (lines 219-228) belong to the object: a method
\* that assigns or mutates self.x changes generator g alone
StoreSelf(gs, g, self) == [gs EXCEPT ![g] = self]

\* the graph a trivial generate_assertion returns: one triple whose predicate
\* uses prefix p
AssertionGraph(sub_prefix, p) ==
    Join(<< PName(sub_prefix, "assertion") \o <<" ", "{">>,
            Spaces(2) \o Angle(<<"http://", "example.org/s">>) \o <<" ">>
            \o PName(p, "relatesTo") \o <<" ">>
            \o Angle(<<"http://", "example.org/o">>) \o <<" ", ".">>,
            <<"}">> >>,
         <<"\n">>)

Init ==
    /\ lit = LitIdle
    /\ pub = PubIdle
    /\ val = ValIdle
    /\ MainInit

Gens == DOMAIN generators

InAssertion == {g \in Gens : generators[g].pc = "assertion"}

\* NanopubGenerator(config)
Construct(b, config) ==
    /\ Len(generators) < b.gens
    /\ generators' = Append(generators, NewGenerator(config, Len(generators) + 1))
    /\ UNCHANGED <<lit, pub, val, docs, PREFIXES, PUBINFO_TEMPLATES, calls>>

\* one method call on generator g, by a caller or from inside generate_assertion
Call(b, g, self) ==
    /\ calls < b.calls
    /\ generators' = StoreSelf(generators, g, self)
    /\ calls' = calls + 1
    /\ UNCHANGED <<lit, pub, val, docs, PREFIXES, PUBINFO_TEMPLATES>>

AddPrefix(b, g) ==
    \E p \in b.prefixes : Call(b, g, add_prefix(generators[g], p))

AddWikidataLabel(b, g) ==
    \E u \in b.wikidata :
        Call(b, g, add_wikidata_label(generators[g], u, <<"Q42 label">>))

SetIntroduces(b, g) ==
    \E u \in b.introduces : Call(b, g, set_introduces(generators[g], u))

AddNanopubType(b, g) ==
    \E t \in b.types : Call(b, g, add_nanopub_type(generators[g], t))

\* generate_assertion assigns self.config["label"] (the comment of lines 272-275)
AssertionSetsLabel(b, g) ==
    /\ generators[g].pc = "assertion"
    /\ Call(b, g, [generators[g] EXCEPT !.config = [k \in DOMAIN @ \cup {"label"} |->
                                                       IF k = "label" THEN <<"From assertion">>
                                                       ELSE @[k]]])

\* generate, lines 263-273: read the configuration, enter generate_assertion
GenerateBegin(b, g) ==
    /\ generators[g].pc = "idle"
    /\ Len(docs) + Cardinality(InAssertion) < b.docs
    /\ generators' = StoreSelf(generators, g,
                        [generators[g] EXCEPT
                            !.pc = "assertion",
                            !.locals = Some(ReadLocals(generators[g].config)),
                            !.entry_config = generators[g].config,
                            !.assertion_calls = 1])
    /\ UNCHANGED <<lit, pub, val, docs, PREFIXES, PUBINFO_TEMPLATES, calls>>

\* generate, lines 273-298: generate_assertion returns its graph, which uses a
\* prefix the generator holds; the rest of the document is built and returned.
\* Beside the text, a document records the generator that built it and what
\* that generator held and had been called with when generate_assertion
\* returned.
GenerateReturn(g) ==
    /\ generators[g].pc = "assertion"
    /\ \E p \in {"rdfs"} \cup (generators[g].used_prefixes \ BaselinePrefixes),
          ts \in Timestamps :
          docs' = Append(docs,
                    [gen |-> g,
                     text |-> GenerateText(generators[g],
                                           AssertionGraph(generators[g].sub_prefix, p),
                                           PREFIXES, PUBINFO_TEMPLATES, ts),
                     config |-> generators[g].config,
                     entry_config |-> generators[g].entry_config,
                     held |-> [nanopub_types |-> generators[g].nanopub_types,
                               introduces_uri |-> generators[g].introduces_uri,
                               wikidata_labels |-> generators[g].wikidata_labels],
                     type_calls |-> generators[g].type_calls,
                     intro_calls |-> generators[g].intro_calls,
                     assertion_calls |-> generators[g].assertion_calls])
    /\ generators' = StoreSelf(generators, g,
                        [generators[g] EXCEPT !.pc = "idle", !.locals = None])
    /\ UNCHANGED <<lit, pub, val, PREFIXES, PUBINFO_TEMPLATES, calls>>

\* generate_assertion raises (lines 259-261 in the base class): generate
\* propagates the exception and returns nothing
AssertionRaises(g) ==
    /\ generators[g].pc = "assertion"
    /\ generators' = StoreSelf(generators, g,
                        [generators[g] EXCEPT !.pc = "idle", !.locals = None])
    /\ UNCHANGED <<lit, pub, val, docs, PREFIXES, PUBINFO_TEMPLATES, calls>>

Next ==
    \/ \E c \in SingleBuild.configs : Construct(SingleBuild, c)
    \/ \E g \in Gens : AddPrefix(SingleBuild, g)
    \/ \E g \in Gens : AddWikidataLabel(SingleBuild, g)
    \/ \E g \in Gens : SetIntroduces(SingleBuild, g)
    \/ \E g \in Gens : AddNanopubType(SingleBuild, g)
    \/ \E g \in Gens : AssertionSetsLabel(SingleBuild, g)
    \/ \E g \in Gens : GenerateBegin(SingleBuild, g)
    \/ \E g \in Gens : GenerateReturn(g)
    \/ \E g \in Gens : AssertionRaises(g)

Spec == Init /\ [][Next]_vars

NextTwo ==
    \/ \E c \in SeveralBuilds.configs : Construct(SeveralBuilds, c)
    \/ \E g \in Gens : AddPrefix(SeveralBuilds, g)
    \/ \E g \in Gens : AddWikidataLabel(SeveralBuilds, g)
    \/ \E g \in Gens : SetIntroduces(SeveralBuilds, g)
    \/ \E g \in Gens : AddNanopubType(SeveralBuilds, g)
    \/ \E g \in Gens : AssertionSetsLabel(SeveralBuilds, g)
    \/ \E g \in Gens : GenerateBegin(SeveralBuilds, g)
    \/ \E g \in Gens : GenerateReturn(g)
    \/ \E g \in Gens : AssertionRaises(g)

SpecTwo == Init /\ [][NextTwo]_vars

----------------------------------------------------------------------------
(* Reading a returned document *)

DocSet == {docs[i] : i \in 1..Len(docs)}

\* the runs of lines between blank lines
Blocks(ls) == SplitOn(ls, <<>>)

IsPrefixLine(line) == StartsWith(line, <<"@prefix", " ">>)

\* the prefix names the @prefix lines among ls declare
Declared(ls) == {ls[i][3] : i \in {j \in 1..Len(ls) : IsPrefixLine(ls[j])}}

\* the prefix names the prefixed names of the other lines use
Referenced(ls) ==
    UNION {{ls[i][k] : k \in {m \in 1..(Len(ls[i]) - 1) : ls[i][m + 1] = ":"}} :
             i \in {j \in 1..Len(ls) : ~IsPrefixLine(ls[j])}}

\* the lines of the pubinfo graph among the lines of a document
PubinfoLines(ls) ==
    LET first == CHOOSE i \in 1..Len(ls) : ls[i] = PName("sub", "pubinfo") \o <<" ", "{">>
    IN  SubSeq(ls, first, Len(ls))

\* the lines among the pubinfo lines ls that state predicate p:local of 'this:'
PredicateLines(ls, p, local) ==
    SelectSeq(ls, LAMBDA l : StartsWith(l, Spaces(4) \o PName(p, local)))

\* the URI a document binds 'this:' to: what its first line holds between
\* "@prefix this: <" and "> ."
DocUri(d) ==
    LET k == CHOOSE i \in 1..Len(d.text) :
                 d.text[i] = "\n" /\ \A j \in 1..(i - 1) : d.text[j] # "\n"
    IN  SubSeq(d.text, 7, k - 4)

RECURSIVE FirstOccurrences(_)
\* the distinct values of a sequence, in the order of their first occurrence
FirstOccurrences(seq) ==
    IF seq = <<>> THEN <<>>
    ELSE LET init == FirstOccurrences(SubSeq(seq, 1, Len(seq) - 1))
             x == seq[Len(seq)]
         IN  IF \E i \in 1..Len(init) : init[i] = x THEN init ELSE Append(init, x)

NoDuplicates(seq) == \A i, j \in 1..Len(seq) : i # j => seq[i] # seq[j]

----------------------------------------------------------------------------
(* Claims about one build, checked under Spec *)

\* C2: in every document generate returns, every prefix a graph (Head,
\* assertion, provenance, pubinfo) refers to is declared in the document's
\* prefix block, whatever names add_prefix was called with.
C2_EveryPrefixDeclared ==
    \A d \in DocSet :
        LET ls == TextLines(d.text)
        IN  Referenced(ls) \subseteq Declared(ls)

\* C3: generate calls generate_assertion exactly once and reads the label and
\* builds pubinfo after it returned: the pubinfo graph of a document shows the
\* label of the configuration as generate_assertion left it ('Nanopublication'
\* only when the configuration then holds none), and the type list, the
\* introduces-URI and the Wikidata labels the generator held at that moment.
C3_AssertionBeforePubinfo ==
    \A d \in DocSet :
        LET ls == PubinfoLines(TextLines(d.text))
            label == IF "label" \in DOMAIN d.config THEN d.config["label"]
                     ELSE <<"Nanopublication">>
            wd == SelectSeq(ls,
                            LAMBDA l : StartsWith(l, Spaces(2) \o <<"<">> \o WdUri))
        IN  /\ d.assertion_calls = 1
            /\ PredicateLines(ls, "rdfs", "label")
                   = << Spaces(4) \o PName("rdfs", "label") \o <<" ">>
                        \o make_literal(label, None, None) \o <<" ", ";">> >>
            /\ (label = <<"Nanopublication">>) = ("label" \notin DOMAIN d.config)
            /\ PredicateLines(ls, "npx", "hasNanopubType")
                   = IF d.held.nanopub_types = <<>> THEN <<>>
                     ELSE << Spaces(4) \o PName("npx", "hasNanopubType") \o <<" ">>
                             \o AngleList(d.held.nanopub_types, <<",", " ">>)
                             \o <<" ", ";">> >>
            /\ PredicateLines(ls, "npx", "introduces")
                   = IF Truthy(d.held.introduces_uri)
                     THEN << Spaces(4) \o PName("npx", "introduces") \o <<" ">>
                             \o Angle(d.held.introduces_uri[1]) \o <<" ", ";">> >>
                     ELSE <<>>
            /\ Len(wd) = Len(d.held.wikidata_labels)

\* a document whose label, type and introduces-URI were all set by
\* generate_assertion, the configuration having held another label on entry
C3_Witness ==
    \E d \in DocSet :
        /\ "label" \in DOMAIN d.entry_config
        /\ d.config["label"] # d.entry_config["label"]
        /\ d.held.nanopub_types # <<>>
        /\ Truthy(d.held.introduces_uri)

\* C7: the type list of a generator never holds a value twice: it is the
\* distinct URIs add_nanopub_type was called with, in the order of their first
\* addition; and the npx:hasNanopubType line of a document lists each of them
\* once, in that order (there is no such line when none was added).
C7_TypesDistinctInOrder ==
    /\ \A g \in Gens :
        /\ NoDuplicates(generators[g].nanopub_types)
        /\ generators[g].nanopub_types = FirstOccurrences(generators[g].type_calls)
    /\ \A d \in DocSet :
        LET ls == PubinfoLines(TextLines(d.text))
            types == FirstOccurrences(d.type_calls)
            listed == SelectSeq(PredicateLines(ls, "npx", "hasNanopubType")[1],
                                LAMBDA t : t \in {"http://", "<", ">"})
        IN  IF types = <<>>
            THEN PredicateLines(ls, "npx", "hasNanopubType") = <<>>
            ELSE /\ PredicateLines(ls, "npx", "hasNanopubType")
                       = << Spaces(4) \o PName("npx", "hasNanopubType") \o <<" ">>
                            \o AngleList(types, <<",", " ">>) \o <<" ", ";">> >>
                 /\ Len(listed) = 3 * Len(types)

\* a document built after a type was added, another added, and the first
\* added again
C7_Witness ==
    \E d \in DocSet :
        /\ Len(d.type_calls) = 3
        /\ d.type_calls[1] = d.type_calls[3]
        /\ d.type_calls[1] # d.type_calls[2]

\* C8 as stated: the introduces-URI of a build is set at most once, and the
\* pubinfo graph has at most one npx:introduces predicate, present exactly
\* when an introduces-URI was set.
C8_SetAtMostOnce ==
    /\ \A g \in Gens : Len(generators[g].intro_calls) <= 1
    /\ \A d \in DocSet :
        LET ls == PubinfoLines(TextLines(d.text))
        IN  /\ Len(PredicateLines(ls, "npx", "introduces")) <= 1
            /\ (Len(PredicateLines(ls, "npx", "introduces")) = 1) = (d.intro_calls # <<>>)

\* C8 as amended: set_introduces may be called any number of times and each
\* call replaces the URI; the pubinfo graph has at most one npx:introduces
\* predicate, present exactly when the URI set last is a non-empty string, and
\* it names that URI.
C8_LastIntroducesWins ==
    /\ \A g \in Gens :
        generators[g].introduces_uri
            = IF generators[g].intro_calls = <<>> THEN None
              ELSE Some(generators[g].intro_calls[Len(generators[g].intro_calls)])
    /\ \A d \in DocSet :
        PredicateLines(PubinfoLines(TextLines(d.text)), "npx", "introduces")
            = IF d.intro_calls # <<>> /\ d.intro_calls[Len(d.intro_calls)] # <<>>
              THEN << Spaces(4) \o PName("npx", "introduces") \o <<" ">>
                      \o Angle(d.intro_calls[Len(d.intro_calls)]) \o <<" ", ";">> >>
              ELSE <<>>

\* a document built after set_introduces was called with one URI and then
\* with another
C8_Witness ==
    \E d \in DocSet :
        /\ Len(d.intro_calls) = 2
        /\ d.intro_calls[1] # <<>>
        /\ d.intro_calls[2] # <<>>
        /\ d.intro_calls[1] # d.intro_calls[2]

\* the case of C9: the configuration holds creator_orcid, creator_name and
\* label only, and generate_assertion returned without calling a method or
\* touching the configuration
TrivialDocs ==
    {d \in DocSet : /\ d.entry_config = TrivialConfig
                    /\ d.config = TrivialConfig
                    /\ d.held = [nanopub_types |-> <<>>, introduces_uri |-> None,
                                 wikidata_labels |-> <<>>]}

EndsWithOneLineBreak(text) ==
    /\ Len(text) >= 2
    /\ text[Len(text)] = "\n"
    /\ text[Len(text) - 1] # "\n"

\* C9 as stated: the text is exactly 5 blocks (prefixes, Head, assertion,
\* provenance, pubinfo) separated by single blank lines, and ends with one
\* line break.
C9_FiveBlocks ==
    \A d \in TrivialDocs :
        LET b == Blocks(TextLines(d.text))
        IN  /\ EndsWithOneLineBreak(d.text)
            /\ Len(b) = 5
            /\ \A i \in 1..Len(b) : b[i] # <<>>

\* C9 as amended: the text is the prefix block and the Head, assertion,
\* provenance and pubinfo graphs in that order, joined by single blank lines
\* and ending with one line break; the pubinfo graph itself holds one blank
\* line (after the creator-name triple), so the text falls into 6 runs of
\* lines at blank lines, the last two being the pubinfo graph.
C9_FiveTextsSixBlocks ==
    \A d \in TrivialDocs :
        LET b == Blocks(TextLines(d.text))
            Graph(i, name) == /\ b[i][1] = PName("sub", name) \o <<" ", "{">>
                              /\ \A k \in 2..Len(b[i]) : StartsWith(b[i][k], <<" ">>)
                                                         \/ k = Len(b[i])
        IN  /\ EndsWithOneLineBreak(d.text)
            /\ Len(b) = 6
            /\ \A i \in 1..6 : b[i] # <<>>
            /\ \A k \in 1..Len(b[1]) : IsPrefixLine(b[1][k])
            /\ Graph(2, "Head") /\ b[2][Len(b[2])] = <<"}">> /\ Len(b[2]) = 6
            /\ Graph(3, "assertion") /\ b[3][Len(b[3])] = <<"}">> /\ Len(b[3]) = 3
            /\ Graph(4, "provenance") /\ b[4][Len(b[4])] = <<"}">> /\ Len(b[4]) = 3
            /\ Graph(5, "pubinfo") /\ Len(b[5]) = 2
            /\ StartsWith(b[5][2], Spaces(2) \o PName("orcid", "0000-0001-2345-6789"))
            /\ StartsWith(b[6][1], Spaces(2) \o <<"this", ":">>)
            /\ b[6][Len(b[6])] = <<"}">>

\* generate returned a document for the trivial configuration
C9_Witness == TrivialDocs # {}

----------------------------------------------------------------------------
(* Claims about several builds, checked under SpecTwo *)

\* C4 as stated: no two documents carry the same document URI.
C4_NoTwoDocsShareUri ==
    \A i, j \in 1..Len(docs) : i # j => DocUri(docs[i]) # DocUri(docs[j])

\* C4 as amended: the document URI is generated when a generator is
\* constructed, not on each call of generate: distinct generators hold
\* distinct URIs, a document carries the URI of the generator that built it,
\* and so two documents carry the same URI exactly when the same generator
\* built both.
C4_FreshUriPerGenerator ==
    /\ \A g, h \in Gens : g # h => generators[g].nanopub_uri # generators[h].nanopub_uri
    /\ \A d \in DocSet : DocUri(d) = generators[d.gen].nanopub_uri
    /\ \A i, j \in 1..Len(docs) :
        (DocUri(docs[i]) = DocUri(docs[j])) = (docs[i].gen = docs[j].gen)

\* two generators have each returned a document
C4_Witness ==
    /\ Len(docs) = 2
    /\ docs[1].gen # docs[2].gen

\* the mutable structures of a build, and the URI it was given
Own(self) ==
    [used_prefixes |-> self.used_prefixes, nanopub_types |-> self.nanopub_types,
     wikidata_labels |-> self.wikidata_labels, introduces_uri |-> self.introduces_uri,
     nanopub_uri |-> self.nanopub_uri]

====
